---- MODULE Spec2Model ----
(***************************************************************************)
(* Series 27 outlier analysis and correction                               *)
(* (Series_27/Analysis/outlier_analysis_series27.py).                      *)
(*                                                                         *)
(* Text (labels, column names, sheet names, paths) is a sequence of        *)
(* character codes, so that re.findall, str.split, int(), str.lower and    *)
(* the os.path functions are computed character by character.              *)
(* Differences, thresholds and raw readings are integers in units of       *)
(* 0.1 cm (the default --threshold 0.1 is 1); the arithmetic of the        *)
(* detector is exact (no floating-point rounding).  A missing cell of      *)
(* the differences sheet is NaN.                                           *)
(***************************************************************************)
EXTENDS Integers, Sequences, FiniteSets, TLC

VARIABLES args, fs, outliers, idx, corrections, log, writes, pc, exc

vars == <<args, fs, outliers, idx, corrections, log, writes, pc, exc>>

---------------------------------------------------------------------------
(* Bounds of the model. *)
MaxRecords == 2   \* cells (year-pair x sensor) of the differences sheet
MaxRows == 2      \* rows of a raw-data sheet
MaxDiff == 2      \* |difference| of a cell, in 0.1 cm
MaxLen == 3       \* records given to the detector alone
MaxThr == 2       \* thresholds given to the detector alone

---------------------------------------------------------------------------
(* Text constants of the program. *)
s_Year_Pair == <<89, 101, 97, 114, 95, 80, 97, 105, 114>>  \* "Year_Pair"
s_Sensor == <<83, 101, 110, 115, 111, 114>>  \* "Sensor"
s_Difference == <<68, 105, 102, 102, 101, 114, 101, 110, 99, 101>>  \* "Difference"
s_OrigDiff == <<79, 114, 105, 103, 68, 105, 102, 102>>  \* "OrigDiff"
s_OffsetApplied == <<79, 102, 102, 115, 101, 116, 65, 112, 112, 108, 105, 101, 100>>  \* "OffsetApplied"
s_CorrectedFile == <<67, 111, 114, 114, 101, 99, 116, 101, 100, 70, 105, 108, 101>>  \* "CorrectedFile"
s_RawData == <<82, 97, 119, 32, 68, 97, 116, 97, 32>>  \* "Raw Data "
s_V == <<86>>  \* "V"
s_time == <<116, 105, 109, 101>>  \* "time"
s_corrected == <<95, 99, 111, 114, 114, 101, 99, 116, 101, 100, 46, 120, 108, 115, 120>>  \* "_corrected.xlsx"
s_underscore == <<95>>  \* "_"
s_summary == <<99, 111, 114, 114, 101, 99, 116, 105, 111, 110, 115, 95, 115, 117, 109, 109, 97, 114, 121, 46, 120, 108, 115, 120>>  \* "corrections_summary.xlsx"
s_plot == <<111, 117, 116, 108, 105, 101, 114, 115, 95, 112, 108, 111, 116, 46, 112, 110, 103>>  \* "outliers_plot.png"
s_Sheet1 == <<83, 104, 101, 101, 116, 49>>  \* "Sheet1"
s_slashS == <<47, 83>>  \* "/S"
DefaultSheetSummary == <<89, 101, 97, 114, 45, 116, 111, 45, 89, 101, 97, 114, 32, 68, 105, 102, 102, 101, 114, 101, 110, 99, 101, 115>>  \* "Year-to-Year Differences"
DefaultOutput == <<111, 117, 116, 112, 117, 116>>  \* "output"

(* Text of the modelled inputs. *)
Pair_2020_2021 == <<50, 48, 50, 48, 45, 50, 48, 50, 49>>  \* "2020-2021"
Pair_2019_2020 == <<50, 48, 49, 57, 45, 50, 48, 50, 48>>  \* "2019-2020"
Pair_three == <<50, 48, 49, 57, 45, 50, 48, 50, 48, 45, 50, 48, 50, 49>>  \* "2019-2020-2021"
Sensor_1 == <<83, 101, 110, 115, 111, 114, 32, 49>>  \* "Sensor 1"
Sensor_2 == <<83, 101, 110, 115, 111, 114, 32, 50>>  \* "Sensor 2"
Sensor_digits == <<50>>  \* "2"
Col_V1 == <<86, 49>>  \* "V1"
Col_V2 == <<86, 50>>  \* "V2"
Col_Timestamp == <<84, 105, 109, 101, 115, 116, 97, 109, 112>>  \* "Timestamp"
Sheet_2019 == <<82, 97, 119, 32, 68, 97, 116, 97, 32, 50, 48, 49, 57>>  \* "Raw Data 2019"
Sheet_2020 == <<82, 97, 119, 32, 68, 97, 116, 97, 32, 50, 48, 50, 48>>  \* "Raw Data 2020"
Input_plain == <<100, 97, 116, 97, 47, 83, 101, 97, 116, 101, 107, 46, 120, 108, 115, 120>>  \* "data/Seatek.xlsx"
Input_summary == <<111, 117, 116, 112, 117, 116, 47, 99, 111, 114, 114, 101, 99, 116, 105, 111, 110, 115, 95, 115, 117, 109, 109, 97, 114, 121, 46, 120, 108, 115, 120>>  \* "output/corrections_summary.xlsx"
Input_plot == <<111, 117, 116, 112, 117, 116, 47, 111, 117, 116, 108, 105, 101, 114, 115, 95, 112, 108, 111, 116, 46, 112, 110, 103>>  \* "output/outliers_plot.png"

---------------------------------------------------------------------------
(* Sequences. *)
Range(s) == {s[i] : i \in DOMAIN s}

Abs(x) == IF x < 0 THEN -x ELSE x

\* The elements of s at the positions where keep is TRUE, in order
\* (boolean-mask indexing, df[mask]).
RECURSIVE Mask(_, _)
Mask(s, keep) ==
  IF s = <<>> THEN <<>>
  ELSE (IF Head(keep) THEN <<Head(s)>> ELSE <<>>) \o Mask(Tail(s), Tail(keep))

\* All sequences over S of length n.
SeqsOfLen(S, n) == [1..n -> S]

\* The sequences of length n of distinct elements of S.
DistinctSeqs(S, n) == {s \in SeqsOfLen(S, n) : \A i, j \in 1..n : s[i] = s[j] => i = j}

---------------------------------------------------------------------------
(* Python's text functions. *)
IsDigit(c) == c \in 48..57

IsSpace(c) == c \in {9, 10, 11, 12, 13, 32}

\* re.findall(r'(\d{4})', s): the non-overlapping runs of four digits,
\* scanning from the left.
RECURSIVE FindYearsFrom(_, _)
FindYearsFrom(s, i) ==
  IF i + 3 > Len(s) THEN <<>>
  ELSE IF \A k \in i..(i + 3) : IsDigit(s[k])
       THEN <<SubSeq(s, i, i + 3)>> \o FindYearsFrom(s, i + 4)
       ELSE FindYearsFrom(s, i + 1)

FindYears(s) == FindYearsFrom(s, 1)

\* str.split(): the maximal runs of non-whitespace characters.
RECURSIVE SplitFrom(_, _, _)
SplitFrom(s, i, cur) ==
  IF i > Len(s) THEN (IF cur = <<>> THEN <<>> ELSE <<cur>>)
  ELSE IF IsSpace(s[i])
       THEN (IF cur = <<>> THEN <<>> ELSE <<cur>>) \o SplitFrom(s, i + 1, <<>>)
       ELSE SplitFrom(s, i + 1, Append(cur, s[i]))

Split(s) == SplitFrom(s, 1, <<>>)

\* str.strip()
RECURSIVE LStrip(_)
LStrip(s) == IF s # <<>> /\ IsSpace(Head(s)) THEN LStrip(Tail(s)) ELSE s

RECURSIVE RStrip(_)
RStrip(s) ==
  IF s # <<>> /\ IsSpace(s[Len(s)]) THEN RStrip(SubSeq(s, 1, Len(s) - 1)) ELSE s

Strip(s) == RStrip(LStrip(s))

RECURSIVE DigitsValue(_, _)
DigitsValue(s, acc) ==
  IF s = <<>> THEN acc ELSE DigitsValue(Tail(s), 10 * acc + (Head(s) - 48))

\* int(s) of a text: surrounding whitespace and one sign are allowed, the
\* rest must be decimal digits; anything else raises ValueError (ok = FALSE).
PyInt(s) ==
  LET t == Strip(s)
      signed == t # <<>> /\ Head(t) \in {43, 45}
      d == IF signed THEN Tail(t) ELSE t
  IN  IF d # <<>> /\ \A k \in DOMAIN d : IsDigit(d[k])
      THEN [ok |-> TRUE,
            val |-> IF signed /\ Head(t) = 45 THEN -DigitsValue(d, 0)
                    ELSE DigitsValue(d, 0)]
      ELSE [ok |-> FALSE, val |-> 0]

\* str(n) of an integer, as an f-string formats it.
RECURSIVE NatStr(_)
NatStr(n) == IF n < 10 THEN <<48 + n>> ELSE Append(NatStr(n \div 10), 48 + (n % 10))

PyStr(n) == IF n < 0 THEN <<45>> \o NatStr(-n) ELSE NatStr(n)

\* str.lower() on the ASCII letters.
Lower(s) == [i \in DOMAIN s |-> IF s[i] \in 65..90 THEN s[i] + 32 ELSE s[i]]

\* sub in s
Contains(s, sub) ==
  \E i \in 1..(Len(s) - Len(sub) + 1) : SubSeq(s, i, i + Len(sub) - 1) = sub

\* The last position of character c in s, 0 when absent.
LastIndexOf(s, c) ==
  IF \E i \in DOMAIN s : s[i] = c
  THEN CHOOSE i \in DOMAIN s : s[i] = c /\ \A j \in DOMAIN s : s[j] = c => j <= i
  ELSE 0

\* os.path.basename (POSIX): what follows the last '/'.
basename(p) == SubSeq(p, LastIndexOf(p, 47) + 1, Len(p))

\* os.path.splitext(p)[0] (POSIX): p without its extension; the extension
\* starts at the last '.' of the last component, leading dots excluded.
splitext_root(p) ==
  LET sep == LastIndexOf(p, 47)
      dot == LastIndexOf(p, 46)
  IN  IF dot > sep /\ \E k \in (sep + 1)..(dot - 1) : p[k] # 46
      THEN SubSeq(p, 1, dot - 1)
      ELSE p

\* os.path.join(a, b) (POSIX)
path_join(a, b) ==
  IF b # <<>> /\ Head(b) = 47 THEN b
  ELSE IF a = <<>> \/ a[Len(a)] = 47 THEN a \o b
  ELSE a \o <<47>> \o b

---------------------------------------------------------------------------
(* Tables (pandas DataFrames) and workbooks.                               *)
(* A table is [columns: sequence of names, rows: sequence of rows], a row  *)
(* a function from the column names to cells.  A file is                   *)
(* [fmt, sheets: function from sheet names to tables, ticks: the x tick    *)
(* labels of a figure].                                                    *)

\* The cell pandas gives for an empty spreadsheet cell.
NaN == -999

IsNaN(x) == x = NaN

\* df[name]: the column as a sequence of cells.
Column(df, name) == [i \in DOMAIN df.rows |-> df.rows[i][name]]

\* pd.read_excel(path, sheet_name=sheet): ok = FALSE when it raises (no such
\* file, not a workbook, no such sheet).
read_excel(files, path, sheet) ==
  IF path \in DOMAIN files /\ files[path].fmt = "xlsx"
     /\ sheet \in DOMAIN files[path].sheets
  THEN [ok |-> TRUE, df |-> files[path].sheets[sheet]]
  ELSE [ok |-> FALSE, df |-> [columns |-> <<>>, rows |-> <<>>]]

\* df.to_excel(path, sheet_name=sheet, index=False): the file at path is
\* replaced by a workbook holding that one sheet.
to_excel(files, path, sheet, df) ==
  [p \in DOMAIN files \cup {path} |->
     IF p = path THEN [fmt |-> "xlsx", sheets |-> (sheet :> df), ticks |-> <<>>]
     ELSE files[p]]

\* plt.savefig(path) of a figure with the given x tick labels
savefig(files, path, ticks) ==
  [p \in DOMAIN files \cup {path} |->
     IF p = path THEN [fmt |-> "png", sheets |-> <<>>, ticks |-> ticks]
     ELSE files[p]]

\* diff_df.melt(id_vars='Year_Pair', var_name='Sensor',
\* value_name='Difference'): one row per (value column, row), column by
\* column.
melt(df) ==
  LET valcols == SelectSeq(df.columns, LAMBDA c : c # s_Year_Pair)
      np == Len(df.rows)
      one(k) ==
        LET c == valcols[((k - 1) \div np) + 1]
            r == df.rows[((k - 1) % np) + 1]
        IN  (s_Year_Pair :> r[s_Year_Pair]) @@ (s_Sensor :> c)
              @@ (s_Difference :> r[c])
  IN  [columns |-> <<s_Year_Pair, s_Sensor, s_Difference>>,
       rows |-> [k \in 1..(np * Len(valcols)) |-> one(k)]]

---------------------------------------------------------------------------
(* The outlier detector.                                                   *)

RECURSIVE SumSeq(_)
SumSeq(s) == IF s = <<>> THEN 0 ELSE Head(s) + SumSeq(Tail(s))

\* The values present (pandas statistics skip NaN).
Present(col) == SelectSeq(col, LAMBDA x : ~IsNaN(x))

RECURSIVE Insert(_, _)
Insert(x, s) ==
  IF s = <<>> THEN <<x>>
  ELSE IF x <= Head(s) THEN <<x>> \o s
  ELSE <<Head(s)>> \o Insert(x, Tail(s))

RECURSIVE Sorted(_)
Sorted(s) == IF s = <<>> THEN <<>> ELSE Insert(Head(s), Sorted(Tail(s)))

\* 4 * col.quantile(num/4) by linear interpolation, for a nonempty sorted xs.
Quantile4(xs, num) ==
  LET pos == num * (Len(xs) - 1)
      lo == (pos \div 4) + 1
      fr == pos % 4
  IN  IF fr = 0 THEN 4 * xs[lo] ELSE 4 * xs[lo] + fr * (xs[lo + 1] - xs[lo])

\* col.abs() >= abs_thr   (a comparison with NaN is False)
\* (variant: a strict comparison, which the properties must tell apart)
abs_mask_strict(col, abs_thr) ==
  [i \in DOMAIN col |-> ~IsNaN(col[i]) /\ Abs(col[i]) > abs_thr]

abs_mask(col, abs_thr) ==
  [i \in DOMAIN col |-> ~IsNaN(col[i]) /\ Abs(col[i]) >= abs_thr]

\* (col - col.mean()).abs() >= z_thr * col.std()
\* With n values present, sum S and sum of squares Q: mean = S/n and
\* std^2 = (n*Q - S^2) / (n*(n-1)) (ddof = 1), NaN when n < 2; for
\* z_thr >= 0 the comparison is that of the squares,
\* (n-1)*(n*x - S)^2 >= z_thr^2 * n * (n*Q - S^2).
\* (variant first: a strict comparison, which the properties must tell apart)
zscore_mask_strict(col, z_thr) ==
  LET xs == Present(col)
      n == Len(xs)
      S == SumSeq(xs)
      Q == SumSeq([i \in DOMAIN xs |-> xs[i] * xs[i]])
  IN  [i \in DOMAIN col |->
         /\ ~IsNaN(col[i])
         /\ n >= 2
         /\ (z_thr < 0
             \/ (n - 1) * (n * col[i] - S) * (n * col[i] - S)
                  > z_thr * z_thr * n * (n * Q - S * S))]

zscore_mask(col, z_thr) ==
  LET xs == Present(col)
      n == Len(xs)
      S == SumSeq(xs)
      Q == SumSeq([i \in DOMAIN xs |-> xs[i] * xs[i]])
  IN  [i \in DOMAIN col |->
         /\ ~IsNaN(col[i])
         /\ n >= 2
         /\ (z_thr < 0
             \/ (n - 1) * (n * col[i] - S) * (n * col[i] - S)
                  >= z_thr * z_thr * n * (n * Q - S * S))]

\* (col < q1 - iqr_fac*iqr) | (col > q3 + iqr_fac*iqr); iqr_fac2 is the
\* factor in halves (the default 1.5 is 3), all sides scaled by 8.
iqr_mask(col, iqr_fac2) ==
  LET xs == Sorted(Present(col))
      q1 == Quantile4(xs, 1)
      q3 == Quantile4(xs, 3)
      iqr == q3 - q1
  IN  [i \in DOMAIN col |->
         /\ ~IsNaN(col[i])
         /\ xs # <<>>
         /\ (8 * col[i] < 2 * q1 - iqr_fac2 * iqr
             \/ 8 * col[i] > 2 * q3 + iqr_fac2 * iqr)]

Methods == {"abs", "zscore", "iqr"}

\* detect_outliers(df, method, abs_thr, z_thr, iqr_fac) followed by
\* .reset_index(drop=True); ok = FALSE is the ValueError of an unknown method.
detect_outliers(df, method, abs_thr, z_thr, iqr_fac2) ==
  LET col == Column(df, s_Difference)
  IN  IF method = "abs"
      THEN [ok |-> TRUE, rows |-> Mask(df.rows, abs_mask(col, abs_thr))]
      ELSE IF method = "zscore"
      THEN [ok |-> TRUE, rows |-> Mask(df.rows, zscore_mask(col, z_thr))]
      ELSE IF method = "iqr"
      THEN [ok |-> TRUE, rows |-> Mask(df.rows, iqr_mask(col, iqr_fac2))]
      ELSE [ok |-> FALSE, rows |-> <<>>]

---------------------------------------------------------------------------
(* The correction of one outlier: the body of the loop of main.            *)

\* offset = -diff
\* (variant first: the offset with the sign of the difference)
correction_offset_same_sign(diff) == diff

correction_offset(diff) == -diff

\* df_raw.iloc[:, :-1]
drop_last_column(df) ==
  LET cols == SubSeq(df.columns, 1, Len(df.columns) - 1)
  IN  [columns |-> cols,
       rows |-> [i \in DOMAIN df.rows |-> [c \in Range(cols) |-> df.rows[i][c]]]]

\* df_raw[col] = df_raw[col] + offset, for a column that exists
add_to_column(df, col, offset) ==
  [columns |-> df.columns,
   rows |-> [i \in DOMAIN df.rows |-> [df.rows[i] EXCEPT ![col] = @ + offset]]]

\* The path of the corrected workbook of a year.
corrected_path(a, next_year) ==
  path_join(a.output,
            splitext_root(basename(a.input)) \o s_underscore
              \o PyStr(next_year) \o s_corrected)

Raise(st, name) == [st EXCEPT !.exc = name]

\* One iteration on the state st = [fs, corrections, log, writes, exc] of
\* the run: st unchanged but for exc when the iteration raises.
correct_one(st, row, a) ==
  LET pair == row[s_Year_Pair]
      toks == Split(row[s_Sensor])
      sensor == PyInt(toks[Len(toks)])
      diff == row[s_Difference]
      years == FindYears(pair)
      next_year == PyInt(years[1]).val
      sheet == s_RawData \o PyStr(next_year)
      read == read_excel(st.fs, a.input, sheet)
      loaded == read.df
      last_col == loaded.columns[Len(loaded.columns)]
      df_raw == IF Contains(Lower(last_col), s_time)
                THEN drop_last_column(loaded) ELSE loaded
      col == s_V \o PyStr(sensor.val)
      offset == correction_offset(diff)
      out_file == corrected_path(a, next_year)
  IN  IF toks = <<>> THEN Raise(st, "IndexError")
      ELSE IF ~sensor.ok THEN Raise(st, "ValueError")
      ELSE IF Len(years) # 2 THEN st
      ELSE IF ~read.ok
      THEN [st EXCEPT !.log = Append(@, [level |-> "WARNING",
                                         msg |-> "Could not read sheet",
                                         arg |-> sheet])]
      ELSE IF loaded.columns = <<>> THEN Raise(st, "IndexError")
      ELSE IF col \notin Range(df_raw.columns) THEN Raise(st, "KeyError")
      ELSE [st EXCEPT
              !.fs = to_excel(@, out_file, sheet, add_to_column(df_raw, col, offset)),
              !.writes = Append(@, out_file),
              !.corrections = Append(@,
                 (s_Year_Pair :> pair) @@ (s_Sensor :> sensor.val)
                   @@ (s_OrigDiff :> diff) @@ (s_OffsetApplied :> offset)
                   @@ (s_CorrectedFile :> out_file))]

\* The loop over a whole sequence of outliers, stopping where one raises.
RECURSIVE correct_all(_, _, _)
correct_all(st, rows, a) ==
  IF rows = <<>> \/ st.exc # "" THEN st
  ELSE correct_all(correct_one(st, Head(rows), a), Tail(rows), a)

---------------------------------------------------------------------------
(* The run of main.                                                        *)

Info(msg, arg) == [level |-> "INFO", msg |-> msg, arg |-> arg]

RunState == [fs |-> fs, corrections |-> corrections, log |-> log,
             writes |-> writes, exc |-> exc]

\* The long-form table the detector is given.
LongTable(files, a) == melt(read_excel(files, a.input, a.sheet_summary).df)

\* Lines 79-91: load the differences sheet, melt it, detect.
Load ==
  /\ pc = "load"
  /\ LET read == read_excel(fs, args.input, args.sheet_summary)
         found == detect_outliers(melt(read.df), args.method, args.threshold,
                                  args.zscore, args.iqr_factor2)
         loading == Append(log, Info("Loading year-to-year differences", <<>>))
     IN  IF ~read.ok \/ s_Year_Pair \notin Range(read.df.columns) \/ ~found.ok
         THEN /\ pc' = "crashed"
              /\ exc' = IF ~read.ok THEN "read_excel"
                        ELSE IF ~found.ok THEN "ValueError" ELSE "KeyError"
              /\ log' = loading
              /\ UNCHANGED outliers
         ELSE /\ pc' = "loop"
              /\ outliers' = found.rows
              /\ log' = Append(loading,
                               Info("Detected outliers", PyStr(Len(found.rows))))
              /\ UNCHANGED exc
  /\ idx' = 1
  /\ UNCHANGED <<args, fs, corrections, writes>>

\* Lines 94-128: one iteration of the loop.
Correct ==
  /\ pc = "loop"
  /\ idx <= Len(outliers)
  /\ LET st == correct_one(RunState, outliers[idx], args)
     IN  /\ fs' = st.fs
         /\ corrections' = st.corrections
         /\ log' = st.log
         /\ writes' = st.writes
         /\ exc' = st.exc
         /\ pc' = IF st.exc # "" THEN "crashed" ELSE "loop"
         /\ idx' = IF st.exc # "" THEN idx ELSE idx + 1
  /\ UNCHANGED <<args, outliers>>

\* pd.DataFrame(corrections)
corrections_frame(recs) ==
  [columns |-> IF recs = <<>> THEN <<>>
               ELSE <<s_Year_Pair, s_Sensor, s_OrigDiff, s_OffsetApplied,
                      s_CorrectedFile>>,
   rows |-> recs]

summary_path(a) == path_join(a.output, s_summary)

plot_path(a) == path_join(a.output, s_plot)

\* Lines 130-133: write the corrections summary.
WriteSummary ==
  /\ pc = "loop"
  /\ idx > Len(outliers)
  /\ fs' = to_excel(fs, summary_path(args), s_Sheet1, corrections_frame(corrections))
  /\ writes' = Append(writes, summary_path(args))
  /\ log' = Append(log, Info("Saved corrections summary", summary_path(args)))
  /\ pc' = "plot"
  /\ UNCHANGED <<args, outliers, idx, corrections, exc>>

\* The x tick label of one outlier: f"{r['Year_Pair']}/S{int(r['Sensor'])}".
tick_label(r) ==
  LET n == PyInt(r[s_Sensor])
  IN  [ok |-> n.ok, text |-> r[s_Year_Pair] \o s_slashS \o PyStr(n.val)]

\* Lines 136-155: plot the outliers, save the figure, print the table.
Plot ==
  /\ pc = "plot"
  /\ LET ticks == [i \in DOMAIN outliers |-> tick_label(outliers[i])]
     IN  IF \E i \in DOMAIN ticks : ~ticks[i].ok
         THEN /\ pc' = "crashed"
              /\ exc' = "ValueError"
              /\ UNCHANGED <<fs, writes, log>>
         ELSE /\ pc' = "done"
              /\ fs' = savefig(fs, plot_path(args),
                               [i \in DOMAIN ticks |-> ticks[i].text])
              /\ writes' = Append(writes, plot_path(args))
              /\ log' = Append(log, Info("Saved plot", plot_path(args)))
              /\ UNCHANGED exc
  /\ UNCHANGED <<args, outliers, idx, corrections>>

---------------------------------------------------------------------------
(* The inputs of a run.                                                    *)

\* The defaults of parse_args: --threshold 0.1 (in 0.1 cm), --zscore 3.0,
\* --iqr_factor 1.5 (in halves).
DefaultThreshold == 1
DefaultZscore == 3
DefaultIqrFactor2 == 3

PairLabels == {Pair_2020_2021, Pair_2019_2020, Pair_three}

SensorLabels == {Sensor_1, Sensor_2, Sensor_digits}

\* The differences of the sheets given to whole runs.
RunDiffs == {-MaxDiff, 0, 1}

\* The differences and thresholds given to the detector alone.
DetectDiffs == (-MaxDiff..MaxDiff) \cup {NaN}

\* The "Year-to-Year Differences" sheet: one row per year pair, one column
\* per sensor.
DiffTable(pairs, sensors, cells) ==
  [columns |-> <<s_Year_Pair>> \o sensors,
   rows |-> [i \in DOMAIN pairs |->
               [c \in {s_Year_Pair} \cup Range(sensors) |->
                  IF c = s_Year_Pair THEN pairs[i]
                  ELSE cells[i][CHOOSE j \in DOMAIN sensors : sensors[j] = c]]]]

\* A reading of a raw-data sheet, in 0.1 cm.
RawReading(year, c, r) == 100 * (year - 2000) + 10 * (c[Len(c)] - 48) + r

\* A "Raw Data {year}" sheet with the given columns.
RawTable(year, cols) ==
  [columns |-> cols,
   rows |-> [r \in 1..MaxRows |-> [c \in Range(cols) |-> RawReading(year, c, r)]]]

\* The raw-data sheets of the modelled workbooks.
RawVariants ==
  { (Sheet_2019 :> RawTable(2019, <<Col_V1, Col_V2>>))
      @@ (Sheet_2020 :> RawTable(2020, <<Col_V1, Col_V2>>)),
    (Sheet_2020 :> RawTable(2020, <<Col_V1, Col_V2, Col_Timestamp>>)),
    (Sheet_2019 :> RawTable(2019, <<Col_V1, Col_V2>>))
      @@ (Sheet_2020 :> RawTable(2020, <<Col_V1>>)),
    (Sheet_2019 :> RawTable(2019, <<Col_V2, Col_V1>>))
      @@ (Sheet_2020 :> RawTable(2020, <<>>)) }

Workbook(diff, raws) ==
  [fmt |-> "xlsx", sheets |-> (DefaultSheetSummary :> diff) @@ raws, ticks |-> <<>>]

Inputs == {Input_plain, Input_summary, Input_plot}

\* The state before main runs, on the command line a and the input workbook wb.
Start(a, wb) ==
  /\ args = a
  /\ fs = (a.input :> wb)
  /\ outliers = <<>>
  /\ idx = 1
  /\ corrections = <<>>
  /\ log = <<>>
  /\ writes = <<>>
  /\ pc = "load"
  /\ exc = ""

Shapes == {sh \in (1..MaxRecords) \X (1..MaxRecords) : sh[1] * sh[2] <= MaxRecords}

Init ==
  \E sh \in Shapes, input \in Inputs, method \in Methods, raws \in RawVariants :
    \E pairs \in DistinctSeqs(PairLabels, sh[1]),
       sensors \in DistinctSeqs(SensorLabels, sh[2]),
       cells \in [1..sh[1] -> [1..sh[2] -> RunDiffs]] :
      Start([input |-> input, sheet_summary |-> DefaultSheetSummary,
             method |-> method, threshold |-> DefaultThreshold,
             zscore |-> DefaultZscore, iqr_factor2 |-> DefaultIqrFactor2,
             output |-> DefaultOutput],
            Workbook(DiffTable(pairs, sensors, cells), raws))

Next == Load \/ Correct \/ WriteSummary \/ Plot

Spec == Init /\ [][Next]_vars

\* The detector alone: the first step of main on sheets of one column or
\* one row, with every method and threshold.
PairLabel(k) == PyStr(2018 + k) \o <<45>> \o PyStr(2019 + k)

SensorLabel(k) == s_Sensor \o <<32>> \o PyStr(k)

DetectShapes == {<<n, 1>> : n \in 0..MaxLen} \cup {<<1, n>> : n \in 2..MaxLen}

DetectArgs ==
  {[input |-> Input_plain, sheet_summary |-> DefaultSheetSummary,
    method |-> m, threshold |-> t, zscore |-> z, iqr_factor2 |-> q,
    output |-> DefaultOutput] :
     m \in Methods, t \in (-1)..MaxThr, z \in (-1)..MaxThr, q \in 0..MaxThr}

InitDetect ==
  \E sh \in DetectShapes, a \in DetectArgs :
    \E cells \in [1..sh[1] -> [1..sh[2] -> DetectDiffs]] :
      /\ a.method = "abs" => a.zscore = 0 /\ a.iqr_factor2 = 0
      /\ a.method = "zscore" => a.threshold = 0 /\ a.iqr_factor2 = 0
      /\ a.method = "iqr" => a.threshold = 0 /\ a.zscore = 0
      /\ Start(a, Workbook(DiffTable([i \in 1..sh[1] |-> PairLabel(i)],
                                     [j \in 1..sh[2] |-> SensorLabel(j)], cells),
                           <<>>))

NextDetect == Load

SpecDetect == InitDetect /\ [][NextDetect]_vars

---------------------------------------------------------------------------
(* Properties.                                                             *)

Finished == pc \in {"done", "crashed"}

LoopDone == pc = "loop" /\ idx > Len(outliers)

SummaryWritten == \E k \in DOMAIN writes : writes[k] = summary_path(args)

\* The raw-data sheet an outlier row is corrected on, by its label.
TargetSheet(row) == s_RawData \o FindYears(row[s_Year_Pair])[1]

LabelOk(row) == Len(FindYears(row[s_Year_Pair])) = 2

SheetReadable(row) ==
  LabelOk(row) /\ TargetSheet(row) \in DOMAIN fs[args.input].sheets

\* The number after the last blank of a sensor label.
SensorOf(row) == PyInt(Split(row[s_Sensor])[Len(Split(row[s_Sensor]))]).val

\* The sensor column of the outlier is absent from its readable sheet.
MissingColumn(row) ==
  /\ SheetReadable(row)
  /\ LET cols == fs[args.input].sheets[TargetSheet(row)].columns
     IN  cols # <<>> /\ (s_V \o PyStr(SensorOf(row))) \notin Range(cols)

\* C1: an outlier whose sensor column V{sensor_id} is absent from its raw
\* sheet is skipped: the run does not stop at it, the remaining outliers
\* are processed and the corrections summary is written by the end of
\* the run.
C1_MissingColumnIsSkipped ==
  (Finished /\ \E k \in DOMAIN outliers : MissingColumn(outliers[k]))
    => (idx > Len(outliers) /\ SummaryWritten)

\* The corrected-table files written so far.
CorrectedFilesWritten ==
  Range(writes) \ {summary_path(args), plot_path(args)}

\* C2: at the end of a run the number of distinct corrected-table files
\* equals the number of successful corrections.
C2_OneFilePerCorrection ==
  Finished => Cardinality(CorrectedFilesWritten) = Len(corrections)

\* The file system before the run wrote anything (the loop never writes
\* the input path).
InputOnly == (args.input :> fs[args.input])

Reordered(f) == [i \in DOMAIN outliers |-> outliers[f[i]]]

\* C3: when the loop has finished, processing the outliers in any other
\* order from the same start gives the same files and the same set of
\* correction records.
C3_OrderIndependent ==
  LoopDone =>
    \A f \in Permutations(DOMAIN outliers) :
      LET other == correct_all([fs |-> InputOnly, corrections |-> <<>>,
                                log |-> <<>>, writes |-> <<>>, exc |-> ""],
                               Reordered(f), args)
      IN  other.fs = fs /\ Range(other.corrections) = Range(corrections)

\* C4: every correction record has OffsetApplied = -OrigDiff, and the
\* table written for the latest correction of an outlier (year_pair,
\* sensor, difference) holds, in column V{sensor} of its one sheet
\* "Raw Data {year}", the raw value of each row plus that offset.
C4_OffsetRoundTrip ==
  (pc = "loop" /\ corrections # <<>>) =>
    /\ \A k \in DOMAIN corrections :
         corrections[k][s_OffsetApplied] = -corrections[k][s_OrigDiff]
    /\ LET c == corrections[Len(corrections)]
           sheet == s_RawData \o FindYears(c[s_Year_Pair])[1]
           col == s_V \o PyStr(c[s_Sensor])
           raw == fs[args.input].sheets[sheet]
           written == fs[c[s_CorrectedFile]]
       IN  /\ \E k \in 1..(idx - 1) :
                /\ outliers[k][s_Year_Pair] = c[s_Year_Pair]
                /\ SensorOf(outliers[k]) = c[s_Sensor]
                /\ outliers[k][s_Difference] = c[s_OrigDiff]
           /\ DOMAIN written.sheets = {sheet}
           /\ Len(written.sheets[sheet].rows) = Len(raw.rows)
           /\ \A i \in DOMAIN raw.rows :
                written.sheets[sheet].rows[i][col] - raw.rows[i][col]
                  = -c[s_OrigDiff]

\* A correction with a nonzero offset has been written, from a sheet whose
\* timestamp column was dropped.
C4_Witness ==
  /\ pc = "loop"
  /\ corrections # <<>>
  /\ corrections[Len(corrections)][s_OffsetApplied] > 0
  /\ Col_Timestamp \in Range(fs[args.input].sheets[Sheet_2020].columns)
  /\ Col_Timestamp \notin
       Range(fs[corrections[Len(corrections)][s_CorrectedFile]].sheets[Sheet_2020].columns)

DiffOf(row) == row[s_Difference]

\* C5: with method 'abs' the detector returns exactly the records with
\* |difference| >= threshold, in their original order; nothing when the
\* threshold exceeds every |difference| and nothing for an empty input.
C5_AbsExactlyAtLeastThreshold ==
  (pc = "loop" /\ args.method = "abs") =>
    LET rows == LongTable(fs, args).rows
        big(r) == ~IsNaN(DiffOf(r))
                    /\ (DiffOf(r) >= args.threshold \/ -DiffOf(r) >= args.threshold)
    IN  /\ outliers = SelectSeq(rows, big)
        /\ (\A i \in DOMAIN rows : ~big(rows[i])) => outliers = <<>>
        /\ rows = <<>> => outliers = <<>>

\* Some but not all records are flagged, one of them exactly at the threshold.
C5_Witness ==
  /\ pc = "loop"
  /\ args.method = "abs"
  /\ outliers # <<>>
  /\ Len(outliers) < Len(LongTable(fs, args).rows)
  /\ \E i \in DOMAIN outliers : -DiffOf(outliers[i]) = args.threshold

\* The differences present in the detector's input, and whether a
\* difference equals their mean.
PresentDiffs == Present(Column(LongTable(fs, args), s_Difference))

EqualsMean(d) ==
  /\ ~IsNaN(d)
  /\ PresentDiffs # <<>>
  /\ Len(PresentDiffs) * d = SumSeq(PresentDiffs)

\* C6 as stated: with method 'zscore' and zscore_threshold = 0 the detector
\* returns every record (with a difference present) except exactly those
\* whose difference equals the mean.
C6_ZeroZscoreExcludesMean ==
  (pc = "loop" /\ args.method = "zscore" /\ args.zscore = 0) =>
    outliers = SelectSeq(LongTable(fs, args).rows,
                         LAMBDA r : ~IsNaN(DiffOf(r)) /\ ~EqualsMean(DiffOf(r)))

\* C6 amended: with method 'zscore' and zscore_threshold = 0 the detector
\* returns every record whose difference is present, those equal to the
\* mean included, when at least two differences are present, and no
\* record when fewer than two are.
C6_ZeroZscoreFlagsAllPresent ==
  (pc = "loop" /\ args.method = "zscore" /\ args.zscore = 0) =>
    outliers = IF Len(PresentDiffs) >= 2
               THEN SelectSeq(LongTable(fs, args).rows, LAMBDA r : ~IsNaN(DiffOf(r)))
               ELSE <<>>

\* A record equal to the mean is flagged while another is not equal to it.
C6_Witness ==
  /\ pc = "loop"
  /\ args.method = "zscore"
  /\ args.zscore = 0
  /\ \E i \in DOMAIN outliers : EqualsMean(DiffOf(outliers[i]))
  /\ \E i \in DOMAIN outliers : ~EqualsMean(DiffOf(outliers[i]))

\* The summary row the claims expect of a corrected outlier.
ExpectedRecord(row) ==
  (s_Year_Pair :> row[s_Year_Pair]) @@ (s_Sensor :> SensorOf(row))
    @@ (s_OrigDiff :> DiffOf(row)) @@ (s_OffsetApplied :> -DiffOf(row))
    @@ (s_CorrectedFile :>
          corrected_path(args, PyInt(FindYears(row[s_Year_Pair])[1]).val))

\* C7: at the end of a run the summary holds exactly one row for each
\* outlier whose label yields two years and whose raw sheet can be read,
\* in outlier order, and none for the others.
C7_SummaryIsCorrectedSubsequence ==
  (Finished /\ pc # "load" /\ exc # "read_excel") =>
    /\ SummaryWritten
    /\ s_Sheet1 \in DOMAIN fs[summary_path(args)].sheets
    /\ LET kept == SelectSeq(outliers, SheetReadable)
       IN  fs[summary_path(args)].sheets[s_Sheet1].rows
             = [i \in DOMAIN kept |-> ExpectedRecord(kept[i])]

\* C8: no write of a run targets the input workbook's path.
C8_InputNeverWritten == \A k \in DOMAIN writes : writes[k] # args.input

\* C9: while the loop runs, every outlier skipped so far has produced a
\* log line naming the cause.
C9_EverySkipLogged ==
  pc = "loop" =>
    Cardinality({k \in DOMAIN log : log[k].level = "WARNING"})
      = (idx - 1) - Len(corrections)

\* C10: a run that has written the corrections summary emits the plot and
\* terminates normally: it never ends in an unhandled exception.
C10_SummaryThenPlot == (pc = "crashed") => ~SummaryWritten

====
